---- MODULE Spec2Model ----
(***************************************************************************)
(* Model lifecycle manager of functiongemma-toycall                        *)
(* (src/src/context/LLMContext.tsx, LLMProvider).                          *)
(*                                                                         *)
(* Every handler of the provider is one action per synchronous section:    *)
(* JavaScript runs a handler to its first await without interleaving, and  *)
(* the continuation after an await is a later, separate section.  React    *)
(* state (status, downloadProgress, error) is written by the set* calls of *)
(* a section and rendered when the section ends; the ref                   *)
(* llamaContextRef.current is written immediately and causes no render.    *)
(***************************************************************************)
EXTENDS Integers, Sequences, FiniteSets, TLC

VARIABLES
    status,            \* useState<ModelStatus>
    downloadProgress,  \* useState(0), a fraction <<num, den>> in lowest terms
    error,             \* useState<string | null>
    llamaContextRef,   \* useRef<LlamaCtx | null>: 0 is null, else a context id
    isModelReady,      \* value.isModelReady as computed by the last render
    modelFile,         \* the file getModelFile() names: [exists, size]
    contexts,          \* engine side: contexts created by initLlama, unreleased
    fetching,          \* confirmDownload calls awaiting downloadAsync()
    loadReleasing,     \* loadModel calls awaiting releaseAllLlama()
    loadIniting,       \* loadModel calls awaiting initLlama()
    modelReleasing,    \* releaseModel calls awaiting releaseAllLlama()
    completing,        \* generateResponse calls awaiting completion()
    statusSets,        \* the setStatus calls of the last section, in order
    lastCall,          \* what the last section did: [op, outcome, promise]
    script,            \* how far the run has followed the retry scenario
    input,             \* the arguments a pure function is applied to
    output,            \* what the function returned and which callbacks ran
    messages,          \* App: useState<ChatMessage[]>([])
    isGenerating,      \* App: useState(false)
    isDarkMode,        \* App: useState(false)
    currentScreen,     \* App: useState<ScreenName>('home')
    notification,      \* App: useState<NotificationData | null>(null), <<>> is null
    catching,          \* App: generateResponse threw at once, the catch is next
    streams            \* per completion() awaited: [hasOnPartial, fullText]

vars == <<status, downloadProgress, error, llamaContextRef, isModelReady,
          modelFile, contexts, fetching, loadReleasing, loadIniting,
          modelReleasing, completing, statusSets, lastCall, script, input,
          output, messages, isGenerating, isDarkMode, currentScreen,
          notification, catching, streams>>

lifecycleVars ==
    <<status, downloadProgress, error, llamaContextRef, isModelReady,
      modelFile, contexts, fetching, loadReleasing, loadIniting,
      modelReleasing, completing, statusSets, lastCall, script>>

hostVars ==
    <<messages, isGenerating, isDarkMode, currentScreen, notification, catching>>

----------------------------------------------------------------------------
(* Bounds *)

\* calls of the provider that may be awaiting a promise at the same time
MaxInFlight == 2

\* totalBytesExpectedToWrite of the download's progress events
TotalBytes == 2

\* pieces a model response is put together from
MaxSegments == 4

\* tokens the engine streams during one completion
MaxTokens == 2

\* parameters of a call that is encoded and parsed back
MaxParams == 2

\* messages the chat holds before input is no longer taken
MaxMessages == 4

----------------------------------------------------------------------------
(* Values *)

ModelStatus ==
    {"idle", "asking", "downloading", "downloaded", "loading", "ready", "error"}

Null == "null"

SanityThreshold == 100000000

\* sizes a file at the model's path can have, around the threshold
FileSizes == {0, SanityThreshold, SanityThreshold + 1}

FileStates ==
    {[exists |-> FALSE, size |-> 0]}
        \cup {[exists |-> TRUE, size |-> s] : s \in FileSizes}

\* what a rejected promise of a collaborator carries: an Error with a
\* message, or a value that is not an Error
Rejections ==
    {[isError |-> TRUE, message |-> "Network request failed"],
     [isError |-> FALSE, message |-> ""]}

NoUriMessage == "Download failed - no URI returned"

FileNotFoundMessage == "Model file not found. Please download first."

NotReadyMessage == "Model is not ready"

\* err instanceof Error ? err.message : fallback
ErrorMessage(err, fallback) == IF err.isError THEN err.message ELSE fallback

RECURSIVE GCD(_, _)
GCD(a, b) == IF b = 0 THEN a ELSE GCD(b, a % b)

\* the number written / expected, kept exact as a fraction in lowest terms
Fraction(written, expected) ==
    LET g == GCD(written, expected)
    IN  <<written \div g, expected \div g>>

Zero == Fraction(0, 1)

One == Fraction(1, 1)

InFlight == fetching + loadReleasing + loadIniting + modelReleasing + completing

\* the id initLlama gives the context it creates
NewContext == CHOOSE c \in 1..(MaxInFlight + 1) : c \notin contexts

----------------------------------------------------------------------------
(* The retry scenario: askToDownload, confirmDownload with a failing fetch, *)
(* confirmDownload again with a succeeding fetch, loadModel with a          *)
(* succeeding engine.  script counts the sections of the run that followed  *)
(* it, progress events aside; any other section leaves the scenario.        *)

OffScript == 99

ScriptEnd == 7

ScriptStep(at, call) ==
    LET is(op, outcome) == call.op = op /\ call.outcome = outcome
    IN  CASE at = 0 /\ is("askToDownload", "returned") -> 1
          [] at = 1 /\ is("confirmDownload", "fetch") -> 2
          [] at = 2 /\ is("progress", "returned") -> 2
          [] at = 2 /\ is("confirmDownload", "nouri") -> 3
          [] at = 2 /\ is("confirmDownload", "rejected") -> 3
          [] at = 3 /\ is("confirmDownload", "fetch") -> 4
          [] at = 4 /\ is("progress", "returned") -> 4
          [] at = 4 /\ is("confirmDownload", "resolved") -> 5
          [] at = 5 /\ is("loadModel", "init") -> 6
          [] at = 6 /\ is("loadModel", "resolved") -> ScriptEnd
          [] OTHER -> OffScript

\* the status the scenario names after each of its sections
ScriptStatus ==
    <<"asking", "downloading", "error", "downloading", "downloaded",
      "loading", "ready">>

NoInput == [kind |-> "none"]

NoOutput == [kind |-> "none"]

\* a section of the provider: the scenario is followed, and no pure
\* function is applied.  No section runs between a rejection at once and its
\* catch, which is a microtask of the same event.
Observed ==
    /\ ~catching
    /\ script' = ScriptStep(script, lastCall')
    /\ UNCHANGED <<input, output, hostVars, streams>>

----------------------------------------------------------------------------
(* Rendering *)

\* a provider whose value is computed once and never again
RenderedOnce(newStatus, newProgress, newError, newRef) == isModelReady

\* LLMProvider renders again when a set* call of the section changed a
\* state value; the render recomputes isModelReady from the ref.
Rendered(newStatus, newProgress, newError, newRef) ==
    IF <<newStatus, newProgress, newError>> # <<status, downloadProgress, error>>
    THEN newRef # 0
    ELSE isModelReady

Commit(newStatus, newProgress, newError, newRef) ==
    /\ status' = newStatus
    /\ downloadProgress' = newProgress
    /\ error' = newError
    /\ llamaContextRef' = newRef
    /\ isModelReady' = Rendered(newStatus, newProgress, newError, newRef)

----------------------------------------------------------------------------
(* Initial state: the provider as constructed; the model file may be left  *)
(* over from an earlier session.                                           *)

LifecycleInit ==
    /\ status = "idle"
    /\ downloadProgress = Zero
    /\ error = Null
    /\ llamaContextRef = 0
    /\ isModelReady = FALSE
    /\ modelFile \in FileStates
    /\ contexts = {}
    /\ fetching = 0
    /\ loadReleasing = 0
    /\ loadIniting = 0
    /\ modelReleasing = 0
    /\ completing = 0
    /\ statusSets = <<>>
    /\ lastCall = [op |-> "none", outcome |-> "none",
                   promise |-> "none"]
    /\ script = 0

\* the application as mounted: the useState initial values of App.tsx
HostInit ==
    /\ messages = <<>>
    /\ isGenerating = FALSE
    /\ isDarkMode = FALSE
    /\ currentScreen = "home"
    /\ notification = <<>>
    /\ catching = FALSE

Init ==
    /\ LifecycleInit
    /\ HostInit
    /\ input = NoInput
    /\ output = NoOutput
    /\ streams = <<>>

----------------------------------------------------------------------------
(* askToDownload / cancelDownload *)

askToDownload ==
    /\ Commit("asking", downloadProgress, Null, llamaContextRef)
    /\ statusSets' = <<"asking">>
    /\ lastCall' = [op |-> "askToDownload", outcome |-> "returned",
                    promise |-> "none"]
    /\ UNCHANGED <<modelFile, contexts, fetching, loadReleasing, loadIniting,
                   modelReleasing, completing>>
    /\ Observed

cancelDownload ==
    /\ Commit("idle", downloadProgress, error, llamaContextRef)
    /\ statusSets' = <<"idle">>
    /\ lastCall' = [op |-> "cancelDownload", outcome |-> "returned",
                    promise |-> "none"]
    /\ UNCHANGED <<modelFile, contexts, fetching, loadReleasing, loadIniting,
                   modelReleasing, completing>>
    /\ Observed

----------------------------------------------------------------------------
(* confirmDownload *)

\* a sanity check that accepts a file of exactly the threshold size
AlreadyDownloadedAtLeast(file) ==
    file.exists /\ file.size # 0 /\ file.size >= SanityThreshold

\* modelFile.exists && modelFile.size && modelFile.size > 100000000
AlreadyDownloaded(file) ==
    file.exists /\ file.size # 0 /\ file.size > SanityThreshold

\* the section up to `await downloadResumable.downloadAsync()`
confirmDownload ==
    /\ IF AlreadyDownloaded(modelFile)
       THEN /\ Commit("downloaded", One, Null, llamaContextRef)
            /\ statusSets' = <<"downloading", "downloaded">>
            /\ lastCall' = [op |-> "confirmDownload", outcome |-> "shortcut",
                            promise |-> "fulfilled"]
            /\ UNCHANGED fetching
       ELSE /\ InFlight < MaxInFlight
            /\ Commit("downloading", Zero, Null, llamaContextRef)
            /\ statusSets' = <<"downloading">>
            /\ lastCall' = [op |-> "confirmDownload", outcome |-> "fetch",
                            promise |-> "pending"]
            /\ fetching' = fetching + 1
    /\ UNCHANGED <<modelFile, contexts, loadReleasing, loadIniting,
                   modelReleasing, completing>>
    /\ Observed

\* the progress callback given to createDownloadResumable
DownloadProgress ==
    /\ fetching > 0
    /\ \E written \in 0..TotalBytes :
         Commit(status, Fraction(written, TotalBytes), error, llamaContextRef)
    /\ statusSets' = <<>>
    /\ lastCall' = [op |-> "progress", outcome |-> "returned",
                    promise |-> "none"]
    /\ UNCHANGED <<modelFile, contexts, fetching, loadReleasing, loadIniting,
                   modelReleasing, completing>>
    /\ Observed

\* downloadAsync() resolved with a uri: the rest of the try block
FetchResolvedWithUri ==
    /\ fetching > 0
    /\ fetching' = fetching - 1
    /\ \E s \in FileSizes : modelFile' = [exists |-> TRUE, size |-> s]
    /\ Commit("downloaded", One, error, llamaContextRef)
    /\ statusSets' = <<"downloaded">>
    /\ lastCall' = [op |-> "confirmDownload", outcome |-> "resolved",
                    promise |-> "fulfilled"]
    /\ UNCHANGED <<contexts, loadReleasing, loadIniting, modelReleasing,
                   completing>>
    /\ Observed

\* a continuation that lacks the `!result?.uri` check
FetchResolvedUnchecked ==
    /\ fetching > 0
    /\ fetching' = fetching - 1
    /\ Commit("downloaded", One, error, llamaContextRef)
    /\ statusSets' = <<"downloaded">>
    /\ lastCall' = [op |-> "confirmDownload", outcome |-> "nouri",
                    promise |-> "fulfilled"]
    /\ UNCHANGED <<modelFile, contexts, loadReleasing, loadIniting,
                   modelReleasing, completing>>
    /\ Observed

\* downloadAsync() resolved with undefined or without a uri: throw, catch
FetchResolvedWithoutUri ==
    /\ fetching > 0
    /\ fetching' = fetching - 1
    /\ Commit("error", downloadProgress, NoUriMessage, llamaContextRef)
    /\ statusSets' = <<"error">>
    /\ lastCall' = [op |-> "confirmDownload", outcome |-> "nouri",
                    promise |-> "fulfilled"]
    /\ UNCHANGED <<modelFile, contexts, loadReleasing, loadIniting,
                   modelReleasing, completing>>
    /\ Observed

\* downloadAsync() rejected: catch
FetchRejected ==
    /\ fetching > 0
    /\ fetching' = fetching - 1
    /\ \E err \in Rejections :
         Commit("error", downloadProgress,
                ErrorMessage(err, "Failed to download model"), llamaContextRef)
    /\ statusSets' = <<"error">>
    /\ lastCall' = [op |-> "confirmDownload", outcome |-> "rejected",
                    promise |-> "fulfilled"]
    /\ UNCHANGED <<modelFile, contexts, loadReleasing, loadIniting,
                   modelReleasing, completing>>
    /\ Observed

----------------------------------------------------------------------------
(* loadModel *)

\* the section up to the first await: `await releaseAllLlama()` when a
\* context is held, else `await initLlama(...)`; a missing file throws
\* into the catch within the same section
loadModel ==
    /\ IF ~modelFile.exists
       THEN /\ Commit("error", downloadProgress, FileNotFoundMessage,
                      llamaContextRef)
            /\ statusSets' = <<"loading", "error">>
            /\ lastCall' = [op |-> "loadModel", outcome |-> "nofile",
                            promise |-> "fulfilled"]
            /\ UNCHANGED <<loadReleasing, loadIniting>>
       ELSE /\ InFlight < MaxInFlight
            /\ Commit("loading", downloadProgress, Null, llamaContextRef)
            /\ statusSets' = <<"loading">>
            /\ IF llamaContextRef # 0
               THEN /\ loadReleasing' = loadReleasing + 1
                    /\ lastCall' = [op |-> "loadModel", outcome |-> "release",
                                    promise |-> "pending"]
                    /\ UNCHANGED loadIniting
               ELSE /\ loadIniting' = loadIniting + 1
                    /\ lastCall' = [op |-> "loadModel", outcome |-> "init",
                                    promise |-> "pending"]
                    /\ UNCHANGED loadReleasing
    /\ UNCHANGED <<modelFile, contexts, fetching, modelReleasing, completing>>
    /\ Observed

\* releaseAllLlama() of loadModel resolved: the ref is cleared and
\* initLlama is called
LoadReleaseResolved ==
    /\ loadReleasing > 0
    /\ loadReleasing' = loadReleasing - 1
    /\ loadIniting' = loadIniting + 1
    /\ contexts' = {}
    /\ Commit(status, downloadProgress, error, 0)
    /\ statusSets' = <<>>
    /\ lastCall' = [op |-> "loadModel", outcome |-> "released",
                    promise |-> "pending"]
    /\ UNCHANGED <<modelFile, fetching, modelReleasing, completing>>
    /\ Observed

\* releaseAllLlama() of loadModel rejected: catch
LoadReleaseRejected ==
    /\ loadReleasing > 0
    /\ loadReleasing' = loadReleasing - 1
    /\ \E err \in Rejections :
         Commit("error", downloadProgress,
                ErrorMessage(err, "Failed to load model"), llamaContextRef)
    /\ statusSets' = <<"error">>
    /\ lastCall' = [op |-> "loadModel", outcome |-> "releaseRejected",
                    promise |-> "fulfilled"]
    /\ UNCHANGED <<modelFile, contexts, fetching, loadIniting, modelReleasing,
                   completing>>
    /\ Observed

\* initLlama() resolved with a new context
LoadInitResolved ==
    /\ loadIniting > 0
    /\ loadIniting' = loadIniting - 1
    /\ contexts' = contexts \cup {NewContext}
    /\ Commit("ready", downloadProgress, error, NewContext)
    /\ statusSets' = <<"ready">>
    /\ lastCall' = [op |-> "loadModel", outcome |-> "resolved",
                    promise |-> "fulfilled"]
    /\ UNCHANGED <<modelFile, fetching, loadReleasing, modelReleasing,
                   completing>>
    /\ Observed

\* initLlama() rejected: catch
LoadInitRejected ==
    /\ loadIniting > 0
    /\ loadIniting' = loadIniting - 1
    /\ \E err \in Rejections :
         Commit("error", downloadProgress,
                ErrorMessage(err, "Failed to load model"), llamaContextRef)
    /\ statusSets' = <<"error">>
    /\ lastCall' = [op |-> "loadModel", outcome |-> "initRejected",
                    promise |-> "fulfilled"]
    /\ UNCHANGED <<modelFile, contexts, fetching, loadReleasing,
                   modelReleasing, completing>>
    /\ Observed

----------------------------------------------------------------------------
(* releaseModel *)

\* the section up to `await releaseAllLlama()`
releaseModel ==
    /\ InFlight < MaxInFlight
    /\ modelReleasing' = modelReleasing + 1
    /\ statusSets' = <<>>
    /\ lastCall' = [op |-> "releaseModel", outcome |-> "release",
                    promise |-> "pending"]
    /\ UNCHANGED <<status, downloadProgress, error, llamaContextRef,
                   isModelReady, modelFile, contexts, fetching, loadReleasing,
                   loadIniting, completing>>
    /\ Observed

\* releaseAllLlama() of releaseModel resolved
ReleaseResolved ==
    /\ modelReleasing > 0
    /\ modelReleasing' = modelReleasing - 1
    /\ contexts' = {}
    /\ Commit("downloaded", downloadProgress, error, 0)
    /\ statusSets' = <<"downloaded">>
    /\ lastCall' = [op |-> "releaseModel", outcome |-> "resolved",
                    promise |-> "fulfilled"]
    /\ UNCHANGED <<modelFile, fetching, loadReleasing, loadIniting, completing>>
    /\ Observed

\* releaseAllLlama() of releaseModel rejected: console.warn only
ReleaseRejected ==
    /\ modelReleasing > 0
    /\ modelReleasing' = modelReleasing - 1
    /\ statusSets' = <<>>
    /\ lastCall' = [op |-> "releaseModel", outcome |-> "warned",
                    promise |-> "fulfilled"]
    /\ UNCHANGED <<status, downloadProgress, error, llamaContextRef,
                   isModelReady, modelFile, contexts, fetching, loadReleasing,
                   loadIniting, completing>>
    /\ Observed

----------------------------------------------------------------------------
(* generateResponse *)

\* the section up to `await llamaContextRef.current.completion(...)`, or
\* the throw of the guard
generateResponse ==
    /\ IF llamaContextRef = 0
       THEN /\ lastCall' = [op |-> "generateResponse",
                            outcome |-> NotReadyMessage,
                            promise |-> "rejected"]
            /\ UNCHANGED completing
       ELSE /\ InFlight < MaxInFlight
            /\ completing' = completing + 1
            /\ lastCall' = [op |-> "generateResponse", outcome |-> "completion",
                            promise |-> "pending"]
    /\ statusSets' = <<>>
    /\ UNCHANGED <<status, downloadProgress, error, llamaContextRef,
                   isModelReady, modelFile, contexts, fetching, loadReleasing,
                   loadIniting, modelReleasing>>
    /\ Observed

\* completion() resolved: the text is returned to the caller
CompletionResolved ==
    /\ completing > 0
    /\ completing' = completing - 1
    /\ statusSets' = <<>>
    /\ lastCall' = [op |-> "generateResponse", outcome |-> "resolved",
                    promise |-> "fulfilled"]
    /\ UNCHANGED <<status, downloadProgress, error, llamaContextRef,
                   isModelReady, modelFile, contexts, fetching, loadReleasing,
                   loadIniting, modelReleasing>>
    /\ Observed

\* a catch that records the failure as the lifecycle's error state
CompletionRejectedIntoError ==
    /\ completing > 0
    /\ completing' = completing - 1
    /\ statusSets' = <<"error">>
    /\ \E err \in Rejections :
         /\ lastCall' = [op |-> "generateResponse",
                         outcome |-> ErrorMessage(err, "Failed to generate response"),
                         promise |-> "rejected"]
         /\ Commit("error", downloadProgress,
                   ErrorMessage(err, "Failed to generate response"),
                   llamaContextRef)
    /\ UNCHANGED <<modelFile, contexts, fetching, loadReleasing, loadIniting,
                   modelReleasing>>
    /\ Observed

\* completion() rejected: rethrown to the caller
CompletionRejected ==
    /\ completing > 0
    /\ completing' = completing - 1
    /\ statusSets' = <<>>
    /\ \E err \in Rejections :
         lastCall' = [op |-> "generateResponse",
                      outcome |-> ErrorMessage(err, "Failed to generate response"),
                      promise |-> "rejected"]
    /\ UNCHANGED <<status, downloadProgress, error, llamaContextRef,
                   isModelReady, modelFile, contexts, fetching, loadReleasing,
                   loadIniting, modelReleasing>>
    /\ Observed

----------------------------------------------------------------------------
Next ==
    \/ askToDownload
    \/ cancelDownload
    \/ confirmDownload
    \/ DownloadProgress
    \/ FetchResolvedWithUri
    \/ FetchResolvedWithoutUri
    \/ FetchRejected
    \/ loadModel
    \/ LoadReleaseResolved
    \/ LoadReleaseRejected
    \/ LoadInitResolved
    \/ LoadInitRejected
    \/ releaseModel
    \/ ReleaseResolved
    \/ ReleaseRejected
    \/ generateResponse
    \/ CompletionResolved
    \/ CompletionRejected

Spec == Init /\ [][Next]_vars

\* a promise of a collaborator that is awaited settles: the fetch of the
\* download terminates
FetchSettles ==
    FetchResolvedWithUri \/ FetchResolvedWithoutUri \/ FetchRejected

FairSpec == Spec /\ WF_vars(FetchSettles)

TypeOK ==
    /\ status \in ModelStatus
    /\ downloadProgress \in {Fraction(w, TotalBytes) : w \in 0..TotalBytes}
    /\ llamaContextRef \in 0..(MaxInFlight + 1)
    /\ isModelReady \in BOOLEAN
    /\ modelFile \in FileStates
    /\ contexts \subseteq 1..(MaxInFlight + 1)
    /\ InFlight \in 0..MaxInFlight
    /\ Len(statusSets) \in 0..2
    /\ script \in 0..ScriptEnd \cup {OffScript}

----------------------------------------------------------------------------
(* Function-call codec (hooks/useToolCalls.ts).  A text is a string, read   *)
(* character by character as the regular expressions of the source read it. *)

StartMarker == "<start_function_call>"

EndMarker == "<end_function_call>"

CallPrefix == "call:"

EscapeTag == "<escape>"

CloseEscapeTag == "</escape>"

CharAt(s, i) == SubSeq(s, i, i)

Chars(s) == {CharAt(s, i) : i \in 1..Len(s)}

\* \w of a JavaScript regular expression
WordChars ==
    Chars("ABCDEFGHIJKLMNOPQRSTUVWXYZabcdefghijklmnopqrstuvwxyz0123456789_")

\* what String.prototype.trim removes, of the characters a string here
\* holds; the last is the vertical tab, U+000B
WhiteSpace == {" ", "\n", "\t", "\r", "\f", ""}

\* what `.` of a regular expression does not match
LineTerminators == {"\n", "\r"}

Least(S) == CHOOSE x \in S : \A y \in S : x <= y

\* the least of the negated elements, negated
Greatest(S) == 0 - Least({0 - x : x \in S})

StartsAt(s, i, m) ==
    /\ i >= 1
    /\ i + Len(m) - 1 <= Len(s)
    /\ SubSeq(s, i, i + Len(m) - 1) = m

\* s.indexOf(m, from), 1-based; 0 when m does not occur at or after from
IndexFrom(s, m, from) ==
    LET hits == {i \in from..(Len(s) - Len(m) + 1) : StartsAt(s, i, m)}
    IN  IF hits = {} THEN 0 ELSE Least(hits)

\* the first position at or after from whose character is not in set;
\* Len(s) + 1 when there is none
RunEnd(s, from, set) ==
    LET stops == {i \in from..Len(s) : CharAt(s, i) \notin set}
    IN  IF stops = {} THEN Len(s) + 1 ELSE Least(stops)

\* s.trim()
Trim(s) ==
    LET kept == {i \in 1..Len(s) : CharAt(s, i) \notin WhiteSpace}
    IN  IF kept = {} THEN "" ELSE SubSeq(s, Least(kept), Greatest(kept))

\* s.replace(/m/g, '') for a literal m
RECURSIVE RemoveAll(_, _)
RemoveAll(s, m) ==
    LET at == IndexFrom(s, m, 1)
    IN  IF at = 0 THEN s
        ELSE SubSeq(s, 1, at - 1)
                 \o RemoveAll(SubSeq(s, at + Len(m), Len(s)), m)

\* s.split(sep) for a one-character sep
RECURSIVE Split(_, _)
Split(s, sep) ==
    LET at == IndexFrom(s, sep, 1)
    IN  IF at = 0 THEN <<s>>
        ELSE <<SubSeq(s, 1, at - 1)>> \o Split(SubSeq(s, at + 1, Len(s)), sep)

\* /<start_function_call>call:(\w+)\{([^}]*)\}<end_function_call>/ tried at
\* position i: the groups and the end of the match, or matched = FALSE
MatchCallAt(s, i) ==
    LET nameAt  == i + Len(StartMarker) + Len(CallPrefix)
        nameEnd == RunEnd(s, nameAt, WordChars)
        bodyAt  == nameEnd + 1
        bodyEnd == IndexFrom(s, "}", bodyAt)
    IN  IF /\ StartsAt(s, i, StartMarker \o CallPrefix)
           /\ nameEnd > nameAt
           /\ StartsAt(s, nameEnd, "{")
           /\ bodyEnd # 0
           /\ StartsAt(s, bodyEnd + 1, EndMarker)
        THEN [matched |-> TRUE,
              name |-> SubSeq(s, nameAt, nameEnd - 1),
              params |-> SubSeq(s, bodyAt, bodyEnd - 1),
              last |-> bodyEnd + Len(EndMarker)]
        ELSE [matched |-> FALSE]

\* response.match(toolCallRegex) of a source that kept the last match
MatchLastCall(s) ==
    LET hits == {i \in 1..Len(s) : MatchCallAt(s, i).matched}
    IN  IF hits = {} THEN [matched |-> FALSE]
        ELSE MatchCallAt(s, Greatest(hits))

\* response.match(toolCallRegex): the leftmost match
MatchCall(s) ==
    LET hits == {i \in 1..Len(s) : MatchCallAt(s, i).matched}
    IN  IF hits = {} THEN [matched |-> FALSE] ELSE MatchCallAt(s, Least(hits))

\* parameters[key] = value on an object literal: the key __proto__ is the
\* prototype's setter, which ignores a string and adds no own key
Assign(parameters, key, value) ==
    IF key = "__proto__" THEN parameters
    ELSE [k \in DOMAIN parameters \cup {key} |->
             IF k = key THEN value ELSE parameters[k]]

\* the body of `for (const pair of paramPairs)`
RECURSIVE ParsePairs(_, _)
ParsePairs(pairs, parameters) ==
    IF pairs = <<>> THEN parameters
    ELSE LET pair == Head(pairs)
             colonIndex == IndexFrom(pair, ":", 1)
             key == Trim(SubSeq(pair, 1, colonIndex - 1))
             raw == Trim(SubSeq(pair, colonIndex + 1, Len(pair)))
             value == RemoveAll(RemoveAll(raw, EscapeTag), CloseEscapeTag)
         IN  IF colonIndex = 0 \/ key = ""
             THEN ParsePairs(Tail(pairs), parameters)
             ELSE ParsePairs(Tail(pairs), Assign(parameters, key, value))

NoToolCall == [found |-> FALSE]

parseToolCall(response) ==
    LET match == MatchCall(response)
    IN  IF ~match.matched THEN NoToolCall
        ELSE [found |-> TRUE,
              name |-> match.name,
              parameters |->
                  IF match.params = "" THEN <<>>
                  ELSE ParsePairs(Split(match.params, ","), <<>>)]

\* a check that looks for the marker only at the start of the response
hasToolCallAtStart(response) == StartsAt(response, 1, StartMarker)

\* response.includes('<start_function_call>')
hasToolCall(response) == IndexFrom(response, StartMarker, 1) # 0

\* one match of /<start_function_call>.*?<end_function_call>/ at or after
\* from: where it starts and where it ends, or start = 0
SpanFrom(s, from) ==
    LET spans == {i \in from..Len(s) :
                    /\ StartsAt(s, i, StartMarker)
                    /\ LET e == IndexFrom(s, EndMarker, i + Len(StartMarker))
                       IN  /\ e # 0
                           /\ \A j \in (i + Len(StartMarker))..(e - 1) :
                                 CharAt(s, j) \notin LineTerminators}
    IN  IF spans = {} THEN [start |-> 0, last |-> 0]
        ELSE LET i == Least(spans)
             IN  [start |-> i,
                  last |-> IndexFrom(s, EndMarker, i + Len(StartMarker))
                               + Len(EndMarker) - 1]

\* a removal that runs from the first span to the end of the text
RemoveSpansToEnd(s) ==
    LET span == SpanFrom(s, 1)
    IN  IF span.start = 0 THEN s ELSE SubSeq(s, 1, span.start - 1)

\* response.replace(/<start_function_call>.*?<end_function_call>/g, '')
RECURSIVE RemoveSpans(_)
RemoveSpans(s) ==
    LET span == SpanFrom(s, 1)
    IN  IF span.start = 0 THEN s
        ELSE SubSeq(s, 1, span.start - 1)
                 \o RemoveSpans(SubSeq(s, span.last + 1, Len(s)))

extractNonToolText(response) == Trim(RemoveSpans(response))

----------------------------------------------------------------------------
(* Dispatch (useToolCalls: executeToolCall, processResponse).  A call of an *)
(* injected callback is recorded as [callback, args].                       *)

Has(parameters, key) == key \in DOMAIN parameters

\* a check that takes only an undefined parameter for missing
MissingAbsent(parameters, key) == ~Has(parameters, key)

\* !toolCall.parameters[key]: undefined or the empty string
Missing(parameters, key) == ~Has(parameters, key) \/ parameters[key] = ""

\* a fallback taken only for an undefined parameter
OrElseAbsent(parameters, key, fallback) ==
    IF Has(parameters, key) THEN parameters[key] ELSE fallback

\* toolCall.parameters[key] || fallback
OrElse(parameters, key, fallback) ==
    IF Missing(parameters, key) THEN fallback ELSE parameters[key]

\* a failure that also raises a notification
FailureAlerting(message) ==
    [result |-> [success |-> FALSE, message |-> message, action |-> <<>>],
     calls |-> <<[callback |-> "onNotification",
                  args |-> <<"Error", message, "error">>]>>]

Failure(message) ==
    [result |-> [success |-> FALSE, message |-> message, action |-> <<>>],
     calls |-> <<>>]

\* a success that invokes its callback twice
SuccessTwice(message, action, callback, args) ==
    [result |-> [success |-> TRUE, message |-> message, action |-> <<action>>],
     calls |-> <<[callback |-> callback, args |-> args],
                 [callback |-> callback, args |-> args]>>]

Success(message, action, callback, args) ==
    [result |-> [success |-> TRUE, message |-> message, action |-> <<action>>],
     calls |-> <<[callback |-> callback, args |-> args]>>]

\* the enum of each tool's parameter (types/tools.ts)
ThemeEnum == {"light", "dark", "toggle"}

TypeEnum == {"info", "success", "warning", "error"}

ScreenEnum == {"home", "settings", "profile", "about"}

\* a dispatch that validates the required parameter against its enum
executeToolCallValidated(toolCall) ==
    LET p == toolCall.parameters
    IN  CASE toolCall.name = "change_theme" ->
               IF Missing(p, "theme") THEN Failure("Missing theme parameter")
               ELSE IF p["theme"] \notin ThemeEnum
               THEN Failure("Invalid theme parameter")
               ELSE Success("Theme changed to " \o p["theme"],
                            "change_theme(" \o p["theme"] \o ")",
                            "onThemeChange", <<p["theme"]>>)
          [] toolCall.name = "navigate_to_screen" ->
               IF Missing(p, "screen") THEN Failure("Missing screen parameter")
               ELSE IF p["screen"] \notin ScreenEnum
               THEN Failure("Invalid screen parameter")
               ELSE Success("Navigated to " \o p["screen"],
                            "navigate_to_screen(" \o p["screen"] \o ")",
                            "onNavigate", <<p["screen"]>>)
          [] OTHER -> Failure("Unknown function: " \o toolCall.name)

\* the result returned and the callbacks invoked, in order
executeToolCall(toolCall) ==
    LET p == toolCall.parameters
    IN  CASE toolCall.name = "change_theme" ->
               IF Missing(p, "theme") THEN Failure("Missing theme parameter")
               ELSE Success("Theme changed to " \o p["theme"],
                            "change_theme(" \o p["theme"] \o ")",
                            "onThemeChange", <<p["theme"]>>)
          [] toolCall.name = "show_notification" ->
               LET title == OrElse(p, "title", "Notification")
                   type == OrElse(p, "type", "info")
               IN  IF Missing(p, "message")
                   THEN Failure("Missing message parameter")
                   ELSE Success("Notification shown: " \o p["message"],
                                "show_notification(\"" \o title \o "\", \""
                                    \o p["message"] \o "\", \"" \o type \o "\")",
                                "onNotification", <<title, p["message"], type>>)
          [] toolCall.name = "navigate_to_screen" ->
               IF Missing(p, "screen") THEN Failure("Missing screen parameter")
               ELSE Success("Navigated to " \o p["screen"],
                            "navigate_to_screen(" \o p["screen"] \o ")",
                            "onNavigate", <<p["screen"]>>)
          [] OTHER -> Failure("Unknown function: " \o toolCall.name)

\* a processResponse that shows the extracted text also when no call is found
processResponseExtracted(response) ==
    LET toolCall == parseToolCall(response)
        textResponse == extractNonToolText(response)
        executed == executeToolCall(toolCall)
    IN  IF toolCall.found
        THEN [toolCall |-> toolCall,
              result |-> <<executed.result>>,
              textResponse |-> textResponse,
              calls |-> executed.calls]
        ELSE [toolCall |-> NoToolCall, result |-> <<>>,
              textResponse |-> textResponse, calls |-> <<>>]

\* result is <<>> for null, else the one ToolExecutionResult
processResponse(response) ==
    LET toolCall == parseToolCall(response)
        textResponse == extractNonToolText(response)
        executed == executeToolCall(toolCall)
    IN  IF toolCall.found
        THEN [toolCall |-> toolCall,
              result |-> <<executed.result>>,
              textResponse |-> textResponse,
              calls |-> executed.calls]
        ELSE [toolCall |-> NoToolCall, result |-> <<>>,
              textResponse |-> response, calls |-> <<>>]

\* content of the assistant message (App.tsx, handleSendMessage)
AssistantContent(processed, response) ==
    IF processed.result # <<>>
    THEN IF processed.textResponse # "" THEN processed.textResponse
         ELSE processed.result[1].message
    ELSE IF processed.textResponse # "" THEN processed.textResponse
         ELSE response

----------------------------------------------------------------------------
(* The text generateResponse returns (LLMContext.tsx, the try block)        *)

\* fullText after the token callbacks: a token is appended only when it is
\* non-empty and an onPartial callback was supplied
RECURSIVE FullText(_, _)
FullText(tokens, hasOnPartial) ==
    IF tokens = <<>> THEN ""
    ELSE FullText(SubSeq(tokens, 1, Len(tokens) - 1), hasOnPartial)
             \o (IF hasOnPartial THEN tokens[Len(tokens)] ELSE "")

\* result.text || fullText || ''
ReturnedText(resultText, fullText) ==
    IF resultText # "" THEN resultText
    ELSE IF fullText # "" THEN fullText ELSE ""

\* return result.text || fullText || '', for the tokens the engine streamed
CompletionText(resultText, tokens, hasOnPartial) ==
    ReturnedText(resultText, FullText(tokens, hasOnPartial))

----------------------------------------------------------------------------
(* The wire format of a call, as the prompt and the parser's comment give   *)
(* it: <start_function_call>call:NAME{k:<escape>v<escape>,...}              *)
(* <end_function_call>.  A call to encode is [name, params], params a       *)
(* sequence of <<key, value>>.                                              *)

RECURSIVE EncodeParams(_)
EncodeParams(params) ==
    IF params = <<>> THEN ""
    ELSE (IF Len(params) > 1
          THEN EncodeParams(SubSeq(params, 1, Len(params) - 1)) \o ","
          ELSE "")
         \o params[Len(params)][1] \o ":" \o EscapeTag
         \o params[Len(params)][2] \o EscapeTag

Encode(call) ==
    StartMarker \o CallPrefix \o call.name \o "{" \o EncodeParams(call.params)
        \o "}" \o EndMarker

\* the key/value mapping a params sequence denotes; the last of a duplicate
\* key wins
RECURSIVE ParamsMap(_)
ParamsMap(params) ==
    IF params = <<>> THEN <<>>
    ELSE Assign(ParamsMap(SubSeq(params, 1, Len(params) - 1)),
                params[Len(params)][1], params[Len(params)][2])

----------------------------------------------------------------------------
(* The pure functions applied to bounded inputs.  A response is put         *)
(* together from pieces: whole calls, the markers, halves of the start      *)
(* marker, a call body without markers, and prose.  Line breaks come with   *)
(* the parameter values of the calls that are encoded.                      *)

ThemeCall == [name |-> "change_theme", params |-> << <<"theme", "dark">> >>]

NavigateCall ==
    [name |-> "navigate_to_screen", params |-> << <<"screen", "home">> >>]

\* a call whose parameter value holds a line break
BreakCall == [name |-> "change_theme", params |-> << <<"theme", "a\nb">> >>]

\* the well-formed calls the responses are put together from
PieceCalls == {ThemeCall, NavigateCall, BreakCall}

\* call:navigate_to_screen{screen:<escape>home<escape>}
CallBody ==
    CallPrefix \o NavigateCall.name \o "{" \o EncodeParams(NavigateCall.params)
        \o "}"

Segments ==
    {Encode(ThemeCall), CallBody, StartMarker, EndMarker,
     "<start_", "function_call>", " ok"}

RECURSIVE Texts(_)
Texts(n) ==
    IF n = 0 THEN {""}
    ELSE LET shorter == Texts(n - 1)
         IN  shorter \cup {t \o seg : t \in shorter, seg \in Segments}

\* what may follow a call in a response
Tails == {"", " ok", " ok" \o EndMarker}

\* the call with the line break, alone and followed by text
BreakTexts == {Encode(BreakCall) \o tail : tail \in Tails}

ResponseInputs ==
    {[kind |-> "response", text |-> t] :
        t \in Texts(MaxSegments) \cup BreakTexts}

RECURSIVE SeqsUpTo(_, _)
SeqsUpTo(S, n) ==
    IF n = 0 THEN {<<>>}
    ELSE SeqsUpTo(S, n - 1)
             \cup {Append(q, x) : q \in SeqsUpTo(S, n - 1), x \in S}

EngineTexts == {"", "ok"}

StreamTokens == {"", "o", "k"}

\* the three tools of types/tools.ts and a name that is none of them
CallNames ==
    {"change_theme", "show_notification", "navigate_to_screen",
     "delete_everything"}

\* the parameters the tools declare, in the order a call lists them
ParamKeys == <<"theme", "message", "title", "type", "screen">>

\* empty, inside an enum, outside every enum, and with the characters the
\* parser splits at or the removal pattern stops at
ParamValues == {"", "dark", "purple", "a,b", "a:\nb"}

\* parameter lists of the grammar with distinct keys
ParamLists ==
    {[i \in 1..Len(q) |-> <<ParamKeys[q[i][1]], q[i][2]>>] :
        q \in {r \in SeqsUpTo((1..Len(ParamKeys)) \X ParamValues, MaxParams) :
                  \A i \in 1..(Len(r) - 1) : r[i][1] < r[i + 1][1]}}

CallInputs ==
    {[kind |-> "call", call |-> [name |-> n, params |-> q]] :
        n \in CallNames, q \in ParamLists}

PureInit ==
    /\ LifecycleInit
    /\ HostInit
    /\ ~modelFile.exists
    /\ input \in ResponseInputs \cup CallInputs
    /\ output = NoOutput
    /\ streams = <<>>

\* parseToolCall and hasToolCall applied to the response
ApplyParse ==
    /\ input.kind = "response"
    /\ output = NoOutput
    /\ output' = [kind |-> "parsed",
                  has |-> hasToolCall(input.text),
                  toolCall |-> parseToolCall(input.text)]
    /\ UNCHANGED <<input, lifecycleVars, hostVars, streams>>

\* extractNonToolText applied to the response, then to its own result
ApplyExtract ==
    /\ input.kind = "response"
    /\ \/ /\ output = NoOutput
          /\ output' = [kind |-> "extracted", times |-> 1,
                        from |-> input.text,
                        prose |-> extractNonToolText(input.text)]
       \/ /\ output.kind = "extracted"
          /\ output.times = 1
          /\ output' = [kind |-> "extracted", times |-> 2,
                        from |-> output.prose,
                        prose |-> extractNonToolText(output.prose)]
    /\ UNCHANGED <<input, lifecycleVars, hostVars, streams>>

\* processResponse applied to the response, and the content the host shows
ApplyProcess ==
    /\ input.kind = "response"
    /\ output = NoOutput
    /\ LET processed == processResponse(input.text)
       IN  output' = [kind |-> "processed",
                      processed |-> processed,
                      content |-> AssistantContent(processed, input.text)]
    /\ UNCHANGED <<input, lifecycleVars, hostVars, streams>>

\* a call of the grammar encoded into the wire format and parsed back
ApplyRoundTrip ==
    /\ input.kind = "call"
    /\ output = NoOutput
    /\ output' = [kind |-> "roundtrip",
                  wire |-> Encode(input.call),
                  toolCall |-> parseToolCall(Encode(input.call))]
    /\ UNCHANGED <<input, lifecycleVars, hostVars, streams>>

\* a call of the grammar on the wire given to processResponse: decoded,
\* executed, and the content the host shows
ApplyDispatch ==
    /\ input.kind = "call"
    /\ output = NoOutput
    /\ LET wire == Encode(input.call)
           processed == processResponse(wire)
       IN  output' = [kind |-> "dispatched",
                      wire |-> wire,
                      processed |-> processed,
                      content |-> AssistantContent(processed, wire)]
    /\ UNCHANGED <<input, lifecycleVars, hostVars, streams>>

PureNext ==
    \/ ApplyParse
    \/ ApplyExtract
    \/ ApplyProcess
    \/ ApplyRoundTrip
    \/ ApplyDispatch

PureSpec == PureInit /\ [][PureNext]_vars

----------------------------------------------------------------------------
(* generateResponse with its stream (LLMContext.tsx, 137-204).  Each        *)
(* completion() awaited has its own fullText; the token callbacks are       *)
(* events of their own, and every other call of the provider may run in     *)
(* between.                                                                 *)

\* the stream at index i has ended
WithoutStream(i) ==
    SubSeq(streams, 1, i - 1) \o SubSeq(streams, i + 1, Len(streams))

\* generateResponse(prompt, onPartial?) up to `await completion()`
generateResponseStreamed ==
    /\ ~catching
    /\ \E hasOnPartial \in BOOLEAN :
         IF llamaContextRef = 0
         THEN /\ lastCall' = [op |-> "generateResponse",
                              outcome |-> NotReadyMessage,
                              promise |-> "rejected"]
              /\ UNCHANGED <<completing, streams>>
         ELSE /\ InFlight < MaxInFlight
              /\ completing' = completing + 1
              /\ streams' = Append(streams, [hasOnPartial |-> hasOnPartial,
                                             fullText |-> ""])
              /\ lastCall' = [op |-> "generateResponse",
                              outcome |-> "completion", promise |-> "pending"]
    /\ statusSets' = <<>>
    /\ script' = ScriptStep(script, lastCall')
    /\ UNCHANGED <<status, downloadProgress, error, llamaContextRef,
                   isModelReady, modelFile, contexts, fetching, loadReleasing,
                   loadIniting, modelReleasing, input, output, hostVars>>

\* the callback given to completion(): data.token && onPartial
TokenStreamed ==
    /\ ~catching
    /\ \E i \in 1..Len(streams), token \in StreamTokens :
         /\ Len(streams[i].fullText) < MaxTokens
         /\ streams' = [streams EXCEPT ![i].fullText =
                           IF token # "" /\ streams[i].hasOnPartial
                           THEN @ \o token ELSE @]
    /\ UNCHANGED <<input, output, lifecycleVars, hostVars>>

\* completion() resolved: return result.text || fullText || ''
CompletionResolvedStreamed ==
    /\ ~catching
    /\ completing > 0
    /\ completing' = completing - 1
    /\ \E i \in 1..Len(streams), resultText \in EngineTexts :
         /\ output' = [kind |-> "completed", resultText |-> resultText,
                       returned |-> ReturnedText(resultText,
                                                 streams[i].fullText)]
         /\ streams' = WithoutStream(i)
    /\ lastCall' = [op |-> "generateResponse", outcome |-> "resolved",
                    promise |-> "fulfilled"]
    /\ statusSets' = <<>>
    /\ script' = ScriptStep(script, lastCall')
    /\ UNCHANGED <<status, downloadProgress, error, llamaContextRef,
                   isModelReady, modelFile, contexts, fetching, loadReleasing,
                   loadIniting, modelReleasing, input, hostVars>>

\* completion() rejected: rethrown to the caller
CompletionRejectedStreamed ==
    /\ ~catching
    /\ completing > 0
    /\ completing' = completing - 1
    /\ \E i \in 1..Len(streams) : streams' = WithoutStream(i)
    /\ \E err \in Rejections :
         lastCall' = [op |-> "generateResponse",
                      outcome |-> ErrorMessage(err, "Failed to generate response"),
                      promise |-> "rejected"]
    /\ statusSets' = <<>>
    /\ script' = ScriptStep(script, lastCall')
    /\ UNCHANGED <<status, downloadProgress, error, llamaContextRef,
                   isModelReady, modelFile, contexts, fetching, loadReleasing,
                   loadIniting, modelReleasing, input, output, hostVars>>

StreamNext ==
    \/ askToDownload
    \/ cancelDownload
    \/ confirmDownload
    \/ DownloadProgress
    \/ FetchResolvedWithUri
    \/ FetchResolvedWithoutUri
    \/ FetchRejected
    \/ loadModel
    \/ LoadReleaseResolved
    \/ LoadReleaseRejected
    \/ LoadInitResolved
    \/ LoadInitRejected
    \/ releaseModel
    \/ ReleaseResolved
    \/ ReleaseRejected
    \/ generateResponseStreamed
    \/ TokenStreamed
    \/ CompletionResolvedStreamed
    \/ CompletionRejectedStreamed

StreamSpec == Init /\ [][StreamNext]_vars

----------------------------------------------------------------------------
(* The host application (App.tsx, ChatInterface.tsx,                        *)
(* ModelDownloadDialog.tsx).  A ChatMessage is [role, content, toolCall];   *)
(* ids and timestamps are left out.  The provider's operations are called   *)
(* from the controls the application renders.                               *)

\* what the input field may hold when a send is attempted
InputTexts == {"", " ", " hi "}

SettingsCall ==
    [name |-> "navigate_to_screen", params |-> << <<"screen", "settings">> >>]

HelloCall ==
    [name |-> "show_notification",
     params |-> << <<"message", "Hello!">>, <<"type", "info">> >>]

\* the texts completion() may resolve with
HostResponses ==
    EngineTexts \cup {Encode(ThemeCall), Encode(SettingsCall), Encode(HelloCall)}

\* onThemeChange: the new isDarkMode
onThemeChange(prev, theme) == IF theme = "toggle" THEN ~prev ELSE theme = "dark"

\* onNotification: the new notification
onNotification(title, message, type) ==
    <<[title |-> title, message |-> message, type |-> type]>>

\* onNavigate: the new currentScreen
onNavigate(screen) == screen

\* the host state after the callbacks processResponse invoked, in order
RECURSIVE AfterCalls(_, _)
AfterCalls(host, calls) ==
    IF calls = <<>> THEN host
    ELSE LET c == Head(calls)
             next ==
                 CASE c.callback = "onThemeChange" ->
                        [host EXCEPT !.isDarkMode = onThemeChange(@, c.args[1])]
                   [] c.callback = "onNotification" ->
                        [host EXCEPT !.notification =
                            onNotification(c.args[1], c.args[2], c.args[3])]
                   [] c.callback = "onNavigate" ->
                        [host EXCEPT !.currentScreen = onNavigate(c.args[1])]
         IN  AfterCalls(next, Tail(calls))

UserMessage(text) == [role |-> "user", content |-> text, toolCall |-> <<>>]

AssistantMessage(processed, response) ==
    [role |-> "assistant",
     content |-> AssistantContent(processed, response),
     toolCall |->
         IF processed.toolCall.found /\ processed.result # <<>>
         THEN LET result == processed.result[1]
              IN  <<[name |-> processed.toolCall.name,
                     action |-> IF result.action # <<>> /\ result.action[1] # ""
                                THEN result.action[1]
                                ELSE processed.toolCall.name \o "()",
                     success |-> result.success]>>
         ELSE <<>>]

SystemMessage(message) ==
    [role |-> "system", content |-> "Error: " \o message, toolCall |-> <<>>]

\* a send condition that does not look at isLoading
SendEnabledWhileLoading(inputText) == Trim(inputText) # "" /\ isModelReady

\* ChatInterface.handleSend: inputText.trim() && !isLoading && !disabled, on
\* the props of the last render
SendEnabled(inputText) ==
    Trim(inputText) # "" /\ ~isGenerating /\ isModelReady

\* handleSend and, when its condition holds, handleSendMessage up to its
\* await.  Without a handle generateResponse throws at once: its promise is
\* rejected, and the catch runs as the next microtask.
handleSend ==
    /\ ~catching
    /\ \E inputText \in InputTexts :
         IF SendEnabled(inputText)
         THEN /\ Len(messages) + 2 <= MaxMessages
              /\ messages' = Append(messages, UserMessage(Trim(inputText)))
              /\ isGenerating' = TRUE
              /\ IF llamaContextRef = 0
                 THEN /\ catching' = TRUE
                      /\ lastCall' = [op |-> "handleSend",
                                      outcome |-> NotReadyMessage,
                                      promise |-> "rejected"]
                      /\ UNCHANGED completing
                 ELSE /\ InFlight < MaxInFlight
                      /\ completing' = completing + 1
                      /\ lastCall' = [op |-> "handleSend",
                                      outcome |-> "completion",
                                      promise |-> "pending"]
                      /\ UNCHANGED catching
         ELSE /\ lastCall' = [op |-> "handleSend", outcome |-> "ignored",
                              promise |-> "none"]
              /\ UNCHANGED <<messages, isGenerating, completing, catching>>
    /\ statusSets' = <<>>
    /\ UNCHANGED <<status, downloadProgress, error, llamaContextRef,
                   isModelReady, modelFile, contexts, fetching, loadReleasing,
                   loadIniting, modelReleasing, script, input, output, streams,
                   isDarkMode, currentScreen, notification>>

\* a catch that shows nothing and leaves isGenerating set
SendRejectedUnhandled ==
    /\ IF catching
       THEN /\ catching' = FALSE
            /\ lastCall' = [op |-> "handleSendMessage",
                            outcome |-> NotReadyMessage,
                            promise |-> "rejected"]
            /\ UNCHANGED completing
       ELSE /\ completing > 0
            /\ completing' = completing - 1
            /\ \E err \in Rejections :
                 lastCall' = [op |-> "handleSendMessage",
                              outcome |-> ErrorMessage(err,
                                              "Failed to generate response"),
                              promise |-> "rejected"]
            /\ UNCHANGED catching
    /\ statusSets' = <<>>
    /\ UNCHANGED <<status, downloadProgress, error, llamaContextRef,
                   isModelReady, modelFile, contexts, fetching, loadReleasing,
                   loadIniting, modelReleasing, script, input, output, streams,
                   messages, isGenerating, isDarkMode, currentScreen,
                   notification>>

\* generateResponse resolved: processResponse runs the callbacks, the
\* assistant message is appended, finally
SendResolved ==
    /\ ~catching
    /\ completing > 0
    /\ completing' = completing - 1
    /\ statusSets' = <<>>
    /\ \E r \in HostResponses :
         LET response == CompletionText(r, <<>>, FALSE)
             processed == processResponse(response)
             host == AfterCalls([isDarkMode |-> isDarkMode,
                                 currentScreen |-> currentScreen,
                                 notification |-> notification],
                                processed.calls)
         IN  /\ messages' = Append(messages,
                                   AssistantMessage(processed, response))
             /\ isDarkMode' = host.isDarkMode
             /\ currentScreen' = host.currentScreen
             /\ notification' = host.notification
    /\ isGenerating' = FALSE
    /\ lastCall' = [op |-> "handleSendMessage", outcome |-> "resolved",
                    promise |-> "fulfilled"]
    /\ UNCHANGED <<status, downloadProgress, error, llamaContextRef,
                   isModelReady, modelFile, contexts, fetching, loadReleasing,
                   loadIniting, modelReleasing, script, input, output, streams,
                   catching>>

\* generateResponse rejected, at once or when completion() rejects: catch
\* appends the system message, finally
SendRejected ==
    /\ IF catching
       THEN /\ catching' = FALSE
            /\ messages' = Append(messages, SystemMessage(NotReadyMessage))
            /\ lastCall' = [op |-> "handleSendMessage",
                            outcome |-> NotReadyMessage,
                            promise |-> "rejected"]
            /\ UNCHANGED completing
       ELSE /\ completing > 0
            /\ completing' = completing - 1
            /\ \E err \in Rejections :
                 LET message == ErrorMessage(err, "Failed to generate response")
                 IN  /\ messages' = Append(messages, SystemMessage(message))
                     /\ lastCall' = [op |-> "handleSendMessage",
                                     outcome |-> message,
                                     promise |-> "rejected"]
            /\ UNCHANGED catching
    /\ isGenerating' = FALSE
    /\ statusSets' = <<>>
    /\ UNCHANGED <<status, downloadProgress, error, llamaContextRef,
                   isModelReady, modelFile, contexts, fetching, loadReleasing,
                   loadIniting, modelReleasing, script, input, output, streams,
                   isDarkMode, currentScreen, notification>>

\* the tabs of ScreenIndicator
ScreenNames == {"home", "settings", "profile", "about"}

\* ScreenIndicator: a tab is pressed, onScreenChange is setCurrentScreen
onScreenChange ==
    /\ ~catching
    /\ \E screen \in ScreenNames :
         /\ currentScreen' = screen
         /\ lastCall' = [op |-> "onScreenChange", outcome |-> screen,
                         promise |-> "none"]
    /\ statusSets' = <<>>
    /\ UNCHANGED <<status, downloadProgress, error, llamaContextRef,
                   isModelReady, modelFile, contexts, fetching, loadReleasing,
                   loadIniting, modelReleasing, completing, script, input,
                   output, streams, messages, isGenerating, isDarkMode, notification,
                   catching>>

\* NotificationToast: the toast's timer ran out or the toast was pressed,
\* and at the end of the slide-out onDismiss sets the notification to null
onDismiss ==
    /\ ~catching
    /\ notification # <<>>
    /\ notification' = <<>>
    /\ lastCall' = [op |-> "onDismiss", outcome |-> "returned",
                    promise |-> "none"]
    /\ statusSets' = <<>>
    /\ UNCHANGED <<status, downloadProgress, error, llamaContextRef,
                   isModelReady, modelFile, contexts, fetching, loadReleasing,
                   loadIniting, modelReleasing, completing, script, input,
                   output, streams, messages, isGenerating, isDarkMode, currentScreen,
                   catching>>

\* App.tsx: the Load Model button, rendered when !isModelReady && idle
PressLoadModel == ~isModelReady /\ status = "idle" /\ askToDownload

\* ModelDownloadDialog: Cancel, rendered when asking and on error
DialogCancel == status \in {"asking", "error"} /\ cancelDownload

\* ModelDownloadDialog: Download and Retry
DialogConfirm == status \in {"asking", "error"} /\ confirmDownload

\* ModelDownloadDialog: Load Model, rendered when downloaded
DialogLoad == status = "downloaded" /\ loadModel

\* the ref is null whenever Load Model is rendered, so loadModel releases
\* nothing here; releaseModel has no control
HostNext ==
    \/ PressLoadModel
    \/ DialogCancel
    \/ DialogConfirm
    \/ DownloadProgress
    \/ FetchResolvedWithUri
    \/ FetchResolvedWithoutUri
    \/ FetchRejected
    \/ DialogLoad
    \/ LoadInitResolved
    \/ LoadInitRejected
    \/ handleSend
    \/ SendResolved
    \/ SendRejected
    \/ onScreenChange
    \/ onDismiss

HostSpec == Init /\ [][HostNext]_vars

\* completion() settles, and a pending catch runs
SendSettles == SendResolved \/ SendRejected

HostFairSpec == HostSpec /\ WF_vars(SendSettles)

----------------------------------------------------------------------------
(* Properties of the lifecycle manager *)

Held == llamaContextRef # 0

\* C1: the inference handle is non-null if and only if status is 'ready'.
C1_HandleIffReady == Held <=> (status = "ready")

\* the transitions of the specified state machine
SpecifiedEdges ==
    {<<"idle", "asking">>, <<"asking", "idle">>, <<"asking", "downloading">>,
     <<"downloading", "downloading">>, <<"downloading", "downloaded">>,
     <<"downloading", "error">>, <<"downloaded", "loading">>,
     <<"loading", "ready">>, <<"loading", "error">>,
     <<"ready", "downloaded">>, <<"error", "downloading">>,
     <<"error", "idle">>}

\* the status values a section passes through, from the one it starts in
StatusWalk(from, sets) == <<from>> \o sets

\* C2: every change of status made by a setStatus call of any operation is
\* an edge of the specified state machine.
C2_OnlySpecifiedEdges ==
    [][\A i \in 1..Len(statusSets') :
         LET walk == StatusWalk(status, statusSets')
         IN  walk[i] # walk[i + 1] => <<walk[i], walk[i + 1]>> \in SpecifiedEdges]_vars

\* C3: two contexts created by initLlama are never both unreleased.
C3_AtMostOneContext == Cardinality(contexts) <= 1

\* C4: the exposed isModelReady equals (status = 'ready' and handle held).
C4_ReadyFlag == isModelReady = (status = "ready" /\ Held)

\* a section that is the call of generateResponse (not a later settling)
GenerateCalled ==
    /\ lastCall'.op = "generateResponse"
    /\ lastCall'.outcome \in {NotReadyMessage, "completion"}

\* C5: generateResponse called when status is not 'ready' or no handle is
\* held rejects with 'Model is not ready' and calls no completion; the
\* engine's completion is called only with status 'ready' and a handle.
C5_GenerateGated ==
    [][/\ (GenerateCalled /\ ~(status = "ready" /\ Held))
            => /\ lastCall'.outcome = NotReadyMessage
               /\ lastCall'.promise = "rejected"
               /\ completing' = completing
       /\ completing' > completing => (status = "ready" /\ Held)]_vars

\* C6: releaseModel with no handle held changes neither status, error,
\* downloadProgress nor the handle.
C6_ReleaseNoOp ==
    [][(lastCall'.op = "releaseModel" /\ ~Held)
          => UNCHANGED <<status, error, downloadProgress, llamaContextRef>>]_vars

\* C7: the error detail is non-null only when status is 'error'.
C7_ErrorOnlyInError == error # Null => status = "error"

\* C8: when status leaves 'downloading' for 'downloaded' or 'error',
\* downloadProgress is 1 in the resulting state, and a progress event
\* arrives only while a download is awaited.
C8_ProgressPinned ==
    [][/\ (status = "downloading" /\ status' \in {"downloaded", "error"})
            => downloadProgress' = One
       /\ lastCall'.op = "progress" => fetching > 0]_vars

\* a section that is the settling of confirmDownload's fetch
FetchSettled == fetching' < fetching

\* C9: confirmDownload's promise is never rejected; a fetch that fails or
\* resolves without a uri ends in 'error' with an error detail, a fetch that
\* resolves with a uri ends in 'downloaded'; a confirmDownload that awaits
\* its fetch eventually settles with status 'downloaded' or 'error'.
C9_ConfirmSettles ==
    /\ [][/\ lastCall'.op = "confirmDownload" => lastCall'.promise # "rejected"
          /\ (FetchSettled /\ lastCall'.outcome \in {"nouri", "rejected"})
               => (status' = "error" /\ error' # Null)
          /\ (FetchSettled /\ lastCall'.outcome = "resolved")
               => status' = "downloaded"]_vars
    /\ (fetching > 0) ~>
         (/\ lastCall.op = "confirmDownload"
          /\ lastCall.outcome \in {"resolved", "nouri", "rejected"}
          /\ lastCall.promise = "fulfilled"
          /\ status \in {"downloaded", "error"})

C9_Witness ==
    /\ lastCall.op = "confirmDownload"
    /\ lastCall.outcome = "nouri"
    /\ status = "error"
    /\ error = NoUriMessage

\* a section that is the call of confirmDownload (not a later settling)
ConfirmCalled ==
    /\ lastCall'.op = "confirmDownload"
    /\ lastCall'.outcome \in {"shortcut", "fetch"}

\* C10: confirmDownload with the file present and larger than 100000000
\* bytes ends 'downloaded' with progress 1 and issues no fetch; with the
\* file absent or not larger than that it issues a fetch.
C10_Shortcut ==
    [][ConfirmCalled =>
         IF modelFile.exists /\ modelFile.size > 100000000
         THEN /\ status' = "downloaded"
              /\ downloadProgress' = One
              /\ fetching' = fetching
         ELSE fetching' = fetching + 1]_vars

C10_Witness ==
    /\ lastCall.op = "confirmDownload"
    /\ lastCall.outcome = "shortcut"
    /\ status = "downloaded"
    /\ downloadProgress = One
    /\ fetching = 0

\* C11: along the retry scenario the statuses are asking, downloading,
\* error, downloading, downloaded, loading, ready in that order, and
\* isModelReady is false before the transition to 'ready' and true after it.
C11_RetryScenario ==
    /\ script = 0 => (status = "idle" /\ ~isModelReady)
    /\ script \in 1..ScriptEnd =>
         /\ status = ScriptStatus[script]
         /\ isModelReady = (script = ScriptEnd)

C11_Witness ==
    /\ script = ScriptEnd
    /\ status = "ready"
    /\ isModelReady
    /\ lastCall.op = "loadModel"

\* C12: loadModel's promise is never rejected; with the model file missing
\* initLlama is not called and status ends 'error' with an error detail;
\* with initLlama failing status ends 'error' and no handle is held.
C12_LoadFailsIntoError ==
    [][/\ lastCall'.op = "loadModel" => lastCall'.promise # "rejected"
       /\ (lastCall'.op = "loadModel" /\ lastCall'.outcome = "nofile")
            => /\ loadIniting' = loadIniting
               /\ status' = "error"
               /\ error' # Null
       /\ (lastCall'.op = "loadModel" /\ lastCall'.outcome = "initRejected")
            => /\ status' = "error"
               /\ llamaContextRef' = 0]_vars

\* C13: no section of generateResponse, whether it calls the engine, is
\* rejected as not ready, resolves or is rejected by the engine, changes
\* status, error, downloadProgress or the handle.
C13_GenerateFrame ==
    [][lastCall'.op = "generateResponse"
          => UNCHANGED <<status, error, downloadProgress, llamaContextRef>>]_vars

C13_Witness ==
    /\ lastCall.op = "generateResponse"
    /\ lastCall.promise = "rejected"
    /\ lastCall.outcome # NotReadyMessage
    /\ status = "ready"
    /\ error = Null
    /\ Held

----------------------------------------------------------------------------
(* Properties of the codec, the dispatcher and the completion text *)

\* C14: the string generateResponse returns is the engine's completion text,
\* never the concatenation of the streamed tokens, for every engine result,
\* token sequence and presence of onPartial.
C14_EngineTextReturned ==
    output.kind = "completed" => output.returned = output.resultText

\* C15: a text for which hasToolCall is false has no call: parseToolCall
\* returns null; equivalently a parsed call implies hasToolCall.
C15_PreCheckSuperset ==
    output.kind = "parsed" => (~output.has => ~output.toolCall.found)

\* a text with an end marker and a call body but no start marker
C15_Witness ==
    /\ output.kind = "parsed"
    /\ ~output.has
    /\ ~output.toolCall.found
    /\ IndexFrom(input.text, CallPrefix, 1) # 0
    /\ IndexFrom(input.text, EndMarker, 1) # 0

\* C16: for a text in which parseToolCall finds no call, extractNonToolText
\* returns the text with only the surrounding whitespace trimmed.
C16_NoCallOnlyTrimmed ==
    (output.kind = "extracted" /\ ~parseToolCall(output.from).found)
        => output.prose = Trim(output.from)

\* C17: extractNonToolText is idempotent: applied to its own result it
\* returns that result.
C17_ExtractIdempotent ==
    (output.kind = "extracted" /\ output.times = 2)
        => output.prose = output.from

\* C18: a call of the grammar, encoded into the wire format and parsed,
\* gives the same name and the same key/value set, also for values that
\* are empty or contain ',' or ':'.
C18_RoundTrip ==
    output.kind = "roundtrip" =>
        /\ output.toolCall.found
        /\ output.toolCall.name = input.call.name
        /\ output.toolCall.parameters = ParamsMap(input.call.params)

\* the well-formed call spans a response of the pieces can contain, by the
\* position they start at
Occurrences(text) ==
    LET opening == StartMarker \o CallPrefix
        starts == {i \in 1..Len(text) : StartsAt(text, i, opening)}
        theme == Encode(ThemeCall)
        navigate == Encode(NavigateCall)
        break == Encode(BreakCall)
    IN  {<<i, ThemeCall>> : i \in {j \in starts : StartsAt(text, j, theme)}}
            \cup {<<i, NavigateCall>> :
                      i \in {j \in starts : StartsAt(text, j, navigate)}}
            \cup {<<i, BreakCall>> :
                      i \in {j \in starts : StartsAt(text, j, break)}}

FirstOccurrence(text) ==
    CHOOSE o \in Occurrences(text) : \A q \in Occurrences(text) : o[1] <= q[1]

\* the one callback a well-formed call of the pieces invokes
CallbackOf(call) ==
    [callback |-> IF call.name = "change_theme" THEN "onThemeChange"
                  ELSE "onNavigate",
     args |-> <<call.params[1][2]>>]

\* C19: a response with the start marker but no well-formed call span is a
\* non-call: parseToolCall returns null, no callback is invoked, and the raw
\* response is the text processResponse returns and the host shows.
C19_MalformedIsProse ==
    (/\ output.kind = "processed"
     /\ IndexFrom(input.text, StartMarker, 1) # 0
     /\ Occurrences(input.text) = {})
        => /\ output.processed.toolCall = NoToolCall
           /\ output.processed.result = <<>>
           /\ output.processed.calls = <<>>
           /\ output.processed.textResponse = input.text
           /\ output.content = input.text

\* a start/end span whose body is not a call: the raw text is shown although
\* extractNonToolText would remove the span
C19_Witness ==
    /\ output.kind = "processed"
    /\ IndexFrom(input.text, StartMarker, 1) # 0
    /\ IndexFrom(input.text, EndMarker, 1) # 0
    /\ Occurrences(input.text) = {}
    /\ extractNonToolText(input.text) # input.text
    /\ output.processed.textResponse = input.text
    /\ output.processed.calls = <<>>

\* C20: at most one call is decoded and dispatched per response: of two or
\* more well-formed spans processResponse decodes exactly the first and
\* invokes only its callback.
C20_FirstCallOnly ==
    output.kind = "processed" =>
        /\ Len(output.processed.calls) <= 1
        /\ Cardinality(Occurrences(input.text)) >= 2 =>
             LET first == FirstOccurrence(input.text)[2]
             IN  /\ output.processed.toolCall =
                        [found |-> TRUE, name |-> first.name,
                         parameters |-> ParamsMap(first.params)]
                 /\ output.processed.calls = <<CallbackOf(first)>>

\* two well-formed spans of different calls, the first one dispatched
C20_Witness ==
    /\ output.kind = "processed"
    /\ \E o, q \in Occurrences(input.text) : o[1] < q[1] /\ o[2] # q[2]
    /\ Len(output.processed.calls) = 1
    /\ output.processed.toolCall.name = FirstOccurrence(input.text)[2].name

\* the well-formed calls of the pieces the response starts with
Leading(text) ==
    {c \in PieceCalls : StartsAt(text, 1, Encode(c))}

\* the call span at the start of the response
LeadingSpan(text) == Encode(CHOOSE c \in Leading(text) : TRUE)

\* the text that follows a well-formed call at the start of the response
Trailing(text) == SubSeq(text, Len(LeadingSpan(text)) + 1, Len(text))

\* a response that is a well-formed call followed by text that is not blank
CallThenText(text) ==
    /\ Leading(text) # {}
    /\ Trim(Trailing(text)) # ""

EndsWith(s, m) == Len(m) <= Len(s) /\ StartsAt(s, Len(s) - Len(m) + 1, m)


----------------------------------------------------------------------------
(* Properties of the dispatcher.  The table of the three actions, written   *)
(* independently of executeToolCall.                                        *)

KnownNames == {"change_theme", "show_notification", "navigate_to_screen"}

RequiredOf(name) ==
    CASE name = "change_theme" -> "theme"
      [] name = "show_notification" -> "message"
      [] name = "navigate_to_screen" -> "screen"

CallbackFor(name) ==
    CASE name = "change_theme" -> "onThemeChange"
      [] name = "show_notification" -> "onNotification"
      [] name = "navigate_to_screen" -> "onNavigate"

SuccessPrefix(name) ==
    CASE name = "change_theme" -> "Theme changed to "
      [] name = "show_notification" -> "Notification shown: "
      [] name = "navigate_to_screen" -> "Navigated to "

\* the key is decoded with a value that is not empty
Supplied(parameters, key) ==
    key \in DOMAIN parameters /\ parameters[key] # ""

\* a call was encoded, decoded and executed
Dispatched == output.kind = "dispatched" /\ output.processed.toolCall.found

\* what onNotification receives when an absent parameter takes its default
NotificationArgs(p, absent(_)) ==
    <<IF absent("title") THEN "Notification" ELSE p["title"],
      p["message"],
      IF absent("type") THEN "info" ELSE p["type"]>>

\* C22 as stated: a call with a known name and its required parameter
\* present invokes exactly the one callback of that name, once, with the
\* literal decoded parameter values (a default only for an absent title or
\* type), and returns success with the table's message.
C22_LiteralValuesDispatched ==
    Dispatched =>
        LET call == output.processed.toolCall
            p == call.parameters
            absent(key) == key \notin DOMAIN p
        IN  (call.name \in KnownNames /\ Supplied(p, RequiredOf(call.name)))
                => /\ output.processed.result
                          = <<[success |-> TRUE,
                               message |-> SuccessPrefix(call.name)
                                               \o p[RequiredOf(call.name)],
                               action |-> output.processed.result[1].action]>>
                   /\ output.processed.calls
                          = <<[callback |-> CallbackFor(call.name),
                               args |-> IF call.name = "show_notification"
                                        THEN NotificationArgs(p, absent)
                                        ELSE <<p[RequiredOf(call.name)]>>]>>

\* C22 amended: the required parameter is decoded with a value that is not
\* empty; the callback receives the decoded values, except that a title or
\* type of show_notification that is absent or empty is passed as its
\* default, 'Notification' or 'info'.
C22_ValidCallDispatched ==
    Dispatched =>
        LET call == output.processed.toolCall
            p == call.parameters
            absent(key) == ~Supplied(p, key)
        IN  (call.name \in KnownNames /\ Supplied(p, RequiredOf(call.name)))
                => /\ output.processed.result
                          = <<[success |-> TRUE,
                               message |-> SuccessPrefix(call.name)
                                               \o p[RequiredOf(call.name)],
                               action |-> output.processed.result[1].action]>>
                   /\ output.processed.calls
                          = <<[callback |-> CallbackFor(call.name),
                               args |-> IF call.name = "show_notification"
                                        THEN NotificationArgs(p, absent)
                                        ELSE <<p[RequiredOf(call.name)]>>]>>

\* show_notification with the type decoded as empty: the callback is invoked
\* once, with 'info' in place of the decoded value
C22_Witness ==
    /\ Dispatched
    /\ output.processed.toolCall.name = "show_notification"
    /\ Supplied(output.processed.toolCall.parameters, "message")
    /\ "type" \in DOMAIN output.processed.toolCall.parameters
    /\ output.processed.toolCall.parameters["type"] = ""
    /\ Len(output.processed.calls) = 1
    /\ output.processed.calls[1].callback = "onNotification"
    /\ output.processed.calls[1].args
           = <<"Notification",
               output.processed.toolCall.parameters["message"], "info">>
    /\ output.processed.result[1].success

\* C23: an unknown name gives success = false with 'Unknown function: NAME',
\* a known action without its required parameter gives success = false with
\* 'Missing ... parameter'; in both cases no callback is invoked.
C23_FailuresAreData ==
    Dispatched =>
        LET call == output.processed.toolCall
            failed(message) ==
                /\ output.processed.result
                       = <<[success |-> FALSE, message |-> message,
                            action |-> <<>>]>>
                /\ output.processed.calls = <<>>
        IN  /\ call.name \notin KnownNames
                => failed("Unknown function: " \o call.name)
            /\ (/\ call.name \in KnownNames
                /\ RequiredOf(call.name) \notin DOMAIN call.parameters)
                => failed("Missing " \o RequiredOf(call.name) \o " parameter")

\* delete_everything with parameters: decoded, not executed
C23_Witness ==
    /\ Dispatched
    /\ output.processed.toolCall.name = "delete_everything"
    /\ DOMAIN output.processed.toolCall.parameters # {}
    /\ output.processed.result[1].message
           = "Unknown function: delete_everything"
    /\ output.processed.calls = <<>>

\* C24 as stated: for a show_notification call with a message, the callback
\* receives the decoded title, or 'Notification' when the title is absent,
\* the message, and the decoded type, or 'info' when the type is absent; the
\* outcome message is 'Notification shown: MESSAGE'.
C24_DefaultsWhenAbsent ==
    Dispatched =>
        LET call == output.processed.toolCall
            p == call.parameters
            absent(key) == key \notin DOMAIN p
        IN  (call.name = "show_notification" /\ Supplied(p, "message"))
                => /\ output.processed.calls
                          = <<[callback |-> "onNotification",
                               args |-> NotificationArgs(p, absent)]>>
                   /\ output.processed.result[1].message
                          = "Notification shown: " \o p["message"]

\* C24 amended: the defaults are also taken for a title or a type that is
\* decoded with an empty value.
C24_DefaultsWhenAbsentOrEmpty ==
    Dispatched =>
        LET call == output.processed.toolCall
            p == call.parameters
            absent(key) == ~Supplied(p, key)
        IN  (call.name = "show_notification" /\ Supplied(p, "message"))
                => /\ output.processed.calls
                          = <<[callback |-> "onNotification",
                               args |-> NotificationArgs(p, absent)]>>
                   /\ output.processed.result[1].message
                          = "Notification shown: " \o p["message"]

\* a notification with an empty title and no type: both defaults
C24_Witness ==
    /\ Dispatched
    /\ output.processed.toolCall.name = "show_notification"
    /\ Supplied(output.processed.toolCall.parameters, "message")
    /\ "title" \in DOMAIN output.processed.toolCall.parameters
    /\ output.processed.toolCall.parameters["title"] = ""
    /\ "type" \notin DOMAIN output.processed.toolCall.parameters
    /\ output.processed.calls[1].args[1] = "Notification"
    /\ output.processed.calls[1].args[3] = "info"

\* C25: a known action whose required parameter has a value outside the
\* tool's enum still invokes the callback with that value and succeeds.
C25_NoEnumValidation ==
    Dispatched =>
        LET call == output.processed.toolCall
            p == call.parameters
            outside(key, enum) == Supplied(p, key) /\ p[key] \notin enum
        IN  /\ (call.name = "change_theme" /\ outside("theme", ThemeEnum))
                => /\ output.processed.calls
                          = <<[callback |-> "onThemeChange",
                               args |-> <<p["theme"]>>]>>
                   /\ output.processed.result[1].success
            /\ (call.name = "navigate_to_screen"
                    /\ outside("screen", ScreenEnum))
                => /\ output.processed.calls
                          = <<[callback |-> "onNavigate",
                               args |-> <<p["screen"]>>]>>
                   /\ output.processed.result[1].success
            /\ (/\ call.name = "show_notification"
                /\ Supplied(p, "message")
                /\ outside("type", TypeEnum))
                => /\ Len(output.processed.calls) = 1
                   /\ output.processed.calls[1].args[3] = p["type"]
                   /\ output.processed.result[1].success

\* change_theme with theme 'purple': onThemeChange('purple'), success
C25_Witness ==
    /\ Dispatched
    /\ output.processed.toolCall.name = "change_theme"
    /\ output.processed.calls
           = <<[callback |-> "onThemeChange", args |-> <<"purple">>]>>
    /\ output.processed.result[1].success
    /\ output.processed.result[1].message = "Theme changed to purple"

\* the value the encoded call gives its required parameter, <<>> when the
\* call does not list it
RequiredValue(call) ==
    [i \in {j \in 1..Len(call.params) :
              call.params[j][1] = RequiredOf(call.name)} |-> call.params[i][2]]

\* C29: a required parameter encoded with an empty value is decoded as the
\* key with value '' and executed like a missing one: the 'Missing ...
\* parameter' failure, no callback.
C29_EmptyIsMissing ==
    (/\ Dispatched
     /\ input.call.name \in KnownNames
     /\ \E i \in DOMAIN RequiredValue(input.call) :
            RequiredValue(input.call)[i] = "")
        => LET key == RequiredOf(input.call.name)
               p == output.processed.toolCall.parameters
           IN  /\ key \in DOMAIN p
               /\ p[key] = ""
               /\ output.processed.result
                      = <<[success |-> FALSE,
                           message |-> "Missing " \o key \o " parameter",
                           action |-> <<>>]>>
               /\ output.processed.calls = <<>>

\* change_theme{theme:<escape><escape>}
C29_Witness ==
    /\ Dispatched
    /\ input.call = [name |-> "change_theme", params |-> << <<"theme", "">> >>]
    /\ output.processed.toolCall.parameters = [k \in {"theme"} |-> ""]
    /\ output.processed.result[1].message = "Missing theme parameter"
    /\ output.processed.calls = <<>>

\* C30: when processResponse decodes and executes a call, the textResponse
\* it returns and the content the host shows contain neither the start
\* marker nor the call body, also when the parameter body has a line break.
C30_NoMarkupShown ==
    (output.kind \in {"processed", "dispatched"}
         /\ output.processed.toolCall.found)
        => /\ IndexFrom(output.processed.textResponse, StartMarker, 1) = 0
           /\ IndexFrom(output.processed.textResponse, CallPrefix, 1) = 0
           /\ IndexFrom(output.content, StartMarker, 1) = 0
           /\ IndexFrom(output.content, CallPrefix, 1) = 0

----------------------------------------------------------------------------
(* Cancellation and work in flight *)

\* a step that is a call of askToDownload, confirmDownload or loadModel
LifecycleCalled ==
    \/ lastCall'.op = "askToDownload"
    \/ ConfirmCalled
    \/ lastCall'.op = "loadModel" /\ lastCall'.outcome \in {"nofile", "release", "init"}

\* C27: once cancelDownload has set status to 'idle', status stays 'idle'
\* until the next askToDownload, confirmDownload or loadModel call; a download
\* or load in flight at the cancel that settles afterwards does not move
\* status.  Stated for the step that follows the cancel.
C27_CancelIsFinal ==
    [][(lastCall.op = "cancelDownload" /\ status = "idle")
          => (status' = "idle" \/ LifecycleCalled)]_vars

----------------------------------------------------------------------------
(* The host's chat *)

\* a send was attempted in the step
SendAttempted == lastCall'.op = "handleSend"

\* the step called generateResponse and awaits completion()
GenerationStarted == completing' = completing + 1

\* C26: requests are serialized by the host: at most one generateResponse
\* call is outstanding at any time, and a send attempted while isGenerating
\* is true or while the model is not ready starts no generation.
C26_SendsSerialized ==
    /\ [](completing <= 1)
    /\ [][(SendAttempted /\ (isGenerating \/ ~isModelReady))
             => (~GenerationStarted /\ messages' = messages)]_vars

\* a send was attempted while a generation was outstanding, and ignored
C26_Witness ==
    /\ lastCall.op = "handleSend"
    /\ lastCall.outcome = "ignored"
    /\ isGenerating
    /\ completing = 1
    /\ isModelReady

\* every user message is followed by its one reply before the next
Alternating ==
    \A i \in 1..Len(messages) : (messages[i].role = "user") <=> (i % 2 = 1)

\* the step appended exactly the messages of the given roles, in order
AppendedRoles(roles) ==
    /\ Len(messages') = Len(messages) + Len(roles)
    /\ SubSeq(messages', 1, Len(messages)) = messages
    /\ \A i \in 1..Len(roles) : messages'[Len(messages) + i].role = roles[i]

\* the last message is a system message that starts with 'Error: '
ErrorShown ==
    LET last == messages'[Len(messages')]
    IN  /\ last.role = "system"
        /\ Len(last.content) > 7
        /\ SubSeq(last.content, 1, 7) = "Error: "

\* the generation of a send settled in the step: completion() settled, or
\* the rejection at once was caught
Settled == completing' < completing \/ (catching /\ ~catching')

\* C28: every handleSendMessage call appends exactly one user message and
\* then exactly one reply, an assistant message when the generation resolves
\* and a system 'Error: ...' message when it rejects, in that order, and
\* isGenerating returns to false once the generation has settled.
C28_OneUserMessageOneReply ==
    /\ [](Alternating /\ (isGenerating <=> Len(messages) % 2 = 1))
    /\ [][/\ (SendAttempted /\ lastCall'.promise = "pending")
                => (AppendedRoles(<<"user">>) /\ isGenerating')
          /\ (SendAttempted /\ lastCall'.promise = "rejected")
                => (AppendedRoles(<<"user">>) /\ isGenerating')
          /\ (SendAttempted /\ lastCall'.promise = "none")
                => messages' = messages
          /\ (Settled /\ lastCall'.promise = "fulfilled")
                => (AppendedRoles(<<"assistant">>) /\ ~isGenerating')
          /\ (Settled /\ lastCall'.promise = "rejected")
                => (AppendedRoles(<<"system">>) /\ ErrorShown
                      /\ ~isGenerating')
          /\ (~SendAttempted /\ ~Settled) => messages' = messages]_vars
    /\ (isGenerating ~> ~isGenerating)

\* two exchanges: one generation resolved, the next one rejected
C28_Witness ==
    /\ Len(messages) = 4
    /\ messages[2].role = "assistant"
    /\ messages[4].role = "system"
    /\ ~isGenerating
    /\ completing = 0

====
